---------------------------- MODULE Spec2Model ----------------------------
(***************************************************************************)
(* Model of app.py, the fraud detection dashboard: the two lazy loaders    *)
(* (load_duplicates, load_crn_ratios) over the process-wide _cache, and    *)
(* the request handlers that serve the cached tables.                      *)
(*                                                                         *)
(* Python values are tagged records: None, Str(<<code points>>), Num(n).   *)
(* A str is the sequence of its code points (32 " ", 50 "2", 53 "5",       *)
(* 65 "A", 97 "a", 98 "b", 120 "x"), so that strip(), lower(), "in" and    *)
(* "<" are computed on characters.  A JSON number n is held in tenths      *)
(* (Num(5) is 0.5), which keeps the thresholds 0.5 and 1.0 integral.       *)
(* A dict is a function from its keys to values.  A list of row objects    *)
(* is a sequence; a reference to a row is its 1-based position in the list *)
(* that owns it (Python's enumerate index + 1).                            *)
(***************************************************************************)
EXTENDS Integers, Sequences, FiniteSets, TLC

VARIABLES
    csv_file,   \* data/duplicates.csv: "missing", "unreadable" or [columns, rows]
    json_file,  \* data/crn_ratio.json: "missing", "unreadable" or a list of dicts
    cache,      \* _cache: a dict, keys appear as the loaders write them
    crn_objs,   \* the list objects json.load created, by the thread that created them
    pc,         \* each request thread's position in its handler
    req,        \* each request thread's query parameters
    loc,        \* each request thread's local variables
    resp        \* each request thread's last response

vars == <<csv_file, json_file, cache, crn_objs, pc, req, loc, resp>>

--------------------------------------------------------------------------
(* Bounds of the model *)

MaxRows == 4
MaxCrn == 3
MaxStart == 2
MaxLength == 2
MaxQueryRows == 3
NThreads == 2

--------------------------------------------------------------------------
(* Python values *)

None == [t |-> "none"]
Str(s) == [t |-> "str", v |-> s]
Num(n) == [t |-> "num", v |-> n]

\* bool(v): None, "" and 0 are falsy
Truthy(x) ==
    CASE x.t = "none" -> FALSE
      [] x.t = "str" -> x.v # <<>>
      [] x.t = "num" -> x.v # 0

\* d.get(k, default)
Get(d, k, default) == IF k \in DOMAIN d THEN d[k] ELSE default

\* d[k] = v
Put(d, k, v) == [x \in DOMAIN d \cup {k} |-> IF x = k THEN v ELSE d[x]]

Min2(a, b) == IF a < b THEN a ELSE b
Max2(a, b) == IF a > b THEN a ELSE b

\* str.isspace for one ASCII character
IsSpace(c) == c \in {9, 10, 11, 12, 13, 28, 29, 30, 31, 32}

RECURSIVE LStrip(_)
LStrip(s) == IF s # <<>> /\ IsSpace(Head(s)) THEN LStrip(Tail(s)) ELSE s

RECURSIVE RStrip(_)
RStrip(s) ==
    IF s # <<>> /\ IsSpace(s[Len(s)]) THEN RStrip(SubSeq(s, 1, Len(s) - 1)) ELSE s

\* str.strip()
Strip(s) == RStrip(LStrip(s))

\* str.lower() on ASCII
Lower(s) == [i \in 1..Len(s) |-> IF s[i] \in 65..90 THEN s[i] + 32 ELSE s[i]]

\* sub in s, for str
Contains(s, sub) ==
    \E i \in 0..(Len(s) - Len(sub)) : SubSeq(s, i + 1, i + Len(sub)) = sub

\* a < b for str: by code point, a proper prefix is smaller
RECURSIVE StrLt(_, _)
StrLt(a, b) ==
    IF b = <<>> THEN FALSE
    ELSE IF a = <<>> THEN TRUE
    ELSE IF Head(a) # Head(b) THEN Head(a) < Head(b)
    ELSE StrLt(Tail(a), Tail(b))

\* a < b for tuples of str: the first differing component decides
RECURSIVE TupleLt(_, _)
TupleLt(a, b) ==
    IF b = <<>> THEN FALSE
    ELSE IF a = <<>> THEN TRUE
    ELSE IF Head(a) # Head(b) THEN StrLt(Head(a), Head(b))
    ELSE TupleLt(Tail(a), Tail(b))

\* str(n) for an int n >= 0
RECURSIVE StrOfNat(_)
StrOfNat(n) == IF n < 10 THEN <<48 + n>> ELSE Append(StrOfNat(n \div 10), 48 + (n % 10))

\* str(v)
PyStr(x) ==
    CASE x.t = "str" -> x.v
      [] x.t = "num" -> StrOfNat(x.v)
      [] x.t = "none" -> <<78, 111, 110, 101>>

\* float(v) of a cell of the monetary column: raises ValueError (ok is FALSE)
\* unless the stripped text is a run of digits, the numerals the model's files hold
RECURSIVE DigitsValue(_)
DigitsValue(s) ==
    IF s = <<>> THEN 0 ELSE 10 * DigitsValue(SubSeq(s, 1, Len(s) - 1)) + (s[Len(s)] - 48)

PyFloat(x) ==
    IF x.t = "num" THEN [ok |-> TRUE, v |-> x.v]
    ELSE LET s == Strip(x.v)
         IN IF s # <<>> /\ \A i \in 1..Len(s) : s[i] \in 48..57
            THEN [ok |-> TRUE, v |-> DigitsValue(s)] ELSE [ok |-> FALSE, v |-> 0]

\* seq[a:b], Python's slice with step 1: negative bounds count from the end
PySlice(s, a, b) ==
    LET n == Len(s)
        lo == IF a < 0 THEN Max2(a + n, 0) ELSE Min2(a, n)
        hi == IF b < 0 THEN Max2(b + n, 0) ELSE Min2(b, n)
    IN SubSeq(s, lo + 1, hi)

Reverse(s) == [i \in 1..Len(s) |-> s[Len(s) + 1 - i]]

--------------------------------------------------------------------------
(* Configuration *)

KEY_COLS == <<"BuyerDtls_Gstin", "SellerDtls_Gstin", "DocDtls_Dt", "DocDtls_No">>

DISPLAY_COLS_PREFERRED ==
    <<"DocDtls_No", "DocDtls_Dt", "DocDtls_Typ",
      "SellerDtls_Gstin", "SellerDtls_LglNm",
      "BuyerDtls_Gstin", "BuyerDtls_LglNm",
      "TranDtls_SupTyp", "ValDtls_TotInvVal", "ValDtls_AssVal",
      "ValDtls_CgstVal", "ValDtls_SgstVal", "ValDtls_IgstVal",
      "ItemList_HsnCd", "ItemList_PrdDesc", "ItemList_Qty",
      "ItemList_UnitPrice", "ItemList_TotItemVal",
      "CustomFields_ErpSource">>

--------------------------------------------------------------------------
(* load_duplicates: grouping *)

\* [(row.get(k) or "").strip() for k in KEY_COLS]
KeyVals(row) ==
    [k \in 1..Len(KEY_COLS) |->
        LET v == Get(row, KEY_COLS[k], None)
        IN Strip(IF Truthy(v) THEN v.v ELSE <<>>)]

\* A faulty variant of GroupsAppend: the index is put in front of the list.
GroupsPrepend(groups, key, i) ==
    IF \E g \in 1..Len(groups) : groups[g].key = key
    THEN [g \in 1..Len(groups) |->
            IF groups[g].key = key
            THEN [groups[g] EXCEPT !.indices = <<i>> \o @] ELSE groups[g]]
    ELSE Append(groups, [key |-> key, indices |-> <<i>>])

\* groups[key].append(i) on a defaultdict(list), kept in insertion order
GroupsAppend(groups, key, i) ==
    IF \E g \in 1..Len(groups) : groups[g].key = key
    THEN [g \in 1..Len(groups) |->
            IF groups[g].key = key
            THEN [groups[g] EXCEPT !.indices = Append(@, i)] ELSE groups[g]]
    ELSE Append(groups, [key |-> key, indices |-> <<i>>])

\* the loop of lines 59-63 from row i on
RECURSIVE BuildGroups(_, _, _)
BuildGroups(rows, i, groups) ==
    IF i > Len(rows) THEN groups
    ELSE LET vals == KeyVals(rows[i])
         IN IF \A k \in 1..Len(vals) : vals[k] # <<>>
            THEN BuildGroups(rows, i + 1, GroupsAppend(groups, vals, i))
            ELSE BuildGroups(rows, i + 1, groups)

\* list.insert of x behind every element that is not greater (binary insertion
\* of a stable sort), for keys that are tuples of str
RECURSIVE InsertKey(_, _)
InsertKey(sorted, x) ==
    IF sorted = <<>> THEN <<x>>
    ELSE IF TupleLt(x, sorted[Len(sorted)])
         THEN Append(InsertKey(SubSeq(sorted, 1, Len(sorted) - 1), x), sorted[Len(sorted)])
         ELSE Append(sorted, x)

\* sorted(groups.keys())
RECURSIVE SortedKeysFrom(_, _, _)
SortedKeysFrom(groups, g, acc) ==
    IF g > Len(groups) THEN acc
    ELSE SortedKeysFrom(groups, g + 1, InsertKey(acc, groups[g].key))

\* A faulty variant of SortedKeys: the keys are taken in first-encounter order.
UnsortedKeys(groups) == [g \in 1..Len(groups) |-> groups[g].key]

SortedKeys(groups) == SortedKeysFrom(groups, 1, <<>>)

IndicesOf(groups, key) ==
    groups[CHOOSE g \in 1..Len(groups) : groups[g].key = key].indices

\* A faulty variant of IsDuplicateGroup: single-occurrence keys are kept.
KeepsSingletons(indices) == Len(indices) >= 1

\* not (len(indices) <= 1), the test of line 72
IsDuplicateGroup(indices) == ~(Len(indices) <= 1)

\* the inner loop of lines 74-85 over one group, from member m on; st holds
\* rows, dup_rows, total_value and unique_sellers
RECURSIVE EmitGroup(_, _, _, _)
EmitGroup(st, indices, m, group_id) ==
    IF m > Len(indices) THEN st
    ELSE LET idx == indices[m]
             row == Put(Put(st.rows[idx], "_group_id", Num(group_id)),
                        "_group_size", Num(Len(indices)))
             cell == Get(row, "ValDtls_TotInvVal", None)
             val == PyFloat(IF Truthy(cell) THEN cell ELSE Num(0))
             sv == Get(row, "SellerDtls_Gstin", None)
             s == Strip(IF Truthy(sv) THEN sv.v ELSE <<>>)
         IN EmitGroup(
                [rows |-> [st.rows EXCEPT ![idx] = row],
                 dup_rows |-> Append(st.dup_rows, idx),
                 total_value |-> IF val.ok THEN st.total_value + val.v
                                 ELSE st.total_value,
                 unique_sellers |-> IF s # <<>> THEN st.unique_sellers \cup {s}
                                    ELSE st.unique_sellers],
                indices, m + 1, group_id)

\* the loop of lines 70-86 from the k-th sorted key on
RECURSIVE EmitGroups(_, _, _, _, _)
EmitGroups(st, groups, keys, k, group_id) ==
    IF k > Len(keys) THEN [st |-> st, group_id |-> group_id]
    ELSE LET indices == IndicesOf(groups, keys[k])
         IN IF IsDuplicateGroup(indices)
            THEN EmitGroups(EmitGroup(st, indices, 1, group_id), groups, keys,
                            k + 1, group_id + 1)
            ELSE EmitGroups(st, groups, keys, k + 1, group_id)

\* lines 56-93 of load_duplicates on a file that was read: the annotated row
\* objects, dup_rows as references to them, display_cols and stats
GroupDuplicates(columns, rows) ==
    LET groups == BuildGroups(rows, 1, <<>>)
        out == EmitGroups([rows |-> rows, dup_rows |-> <<>>, total_value |-> 0,
                           unique_sellers |-> {}],
                          groups, SortedKeys(groups), 1, 0)
    IN [rows |-> [objs |-> out.st.rows, refs |-> out.st.dup_rows],
        display_cols |-> SelectSeq(DISPLAY_COLS_PREFERRED,
                                   LAMBDA c : \E j \in 1..Len(columns) : columns[j] = c),
        stats |-> [total_rows |-> Len(out.st.dup_rows),
                   num_groups |-> out.group_id,
                   total_value |-> out.st.total_value,
                   unique_sellers |-> Cardinality(out.st.unique_sellers)]]

\* the rows a dup_rows list refers to, in its order
Deref(tbl) == [i \in 1..Len(tbl.refs) |-> tbl.objs[tbl.refs[i]]]

\* return [], [], {}
EmptyDup == [rows |-> [objs |-> <<>>, refs |-> <<>>], display_cols |-> <<>>,
             stats |-> [n \in {} |-> 0]]

--------------------------------------------------------------------------
(* load_crn_ratios: statistics *)

RECURSIVE SumField(_, _, _)
SumField(data, field, i) ==
    IF i > Len(data) THEN 0
    ELSE Get(data[i], field, Num(0)).v + SumField(data, field, i + 1)

\* lines 114-119; the thresholds 0.5 and 1.0 are 5 and 10 tenths.  A ratio
\* or value that is not a number raises TypeError (ok is FALSE).
CrnStats(data) ==
    IF \E i \in 1..Len(data) :
          \/ Get(data[i], "crn_inv_ratio", Num(0)).t # "num"
          \/ Get(data[i], "total_crn_val", Num(0)).t # "num"
    THEN [ok |-> FALSE]
    ELSE [ok |-> TRUE,
          total_sellers |-> Len(data),
          high_ratio |-> Cardinality({i \in 1..Len(data) :
                             Get(data[i], "crn_inv_ratio", Num(0)).v > 5}),
          extreme_ratio |-> Cardinality({i \in 1..Len(data) :
                             Get(data[i], "crn_inv_ratio", Num(0)).v > 10}),
          total_crn_val |-> SumField(data, "total_crn_val", 1)]

--------------------------------------------------------------------------
(* api_duplicates and api_crn_ratio: search, sort *)

\* k.startswith("_"), over the column names of the model's files
StartsWithUnderscore(k) == k \in {"_group_id", "_group_size", "_row_num"}

\* any(search in str(v).lower() for v in r.values() if v), line 471
DupRowMatches(row, search) ==
    \E k \in DOMAIN row : Truthy(row[k]) /\ Contains(Lower(PyStr(row[k])), search)

\* the dict r of lines 478-481 for the i-th row (0-based) of the page
DupResultRow(row, start, i) ==
    LET kept == {k \in DOMAIN row : ~StartsWithUnderscore(k)}
        r == [k \in kept |-> IF Truthy(row[k]) THEN row[k] ELSE Str(<<45>>)]
    IN Put(Put(Put(r, "_group_id", Get(row, "_group_id", Num(0))),
               "_group_size", Get(row, "_group_size", Num(0))),
           "_row_num", Num(start + i + 1))

\* search in r.get("gstin", "").lower() or search in r.get("name", "").lower()
CrnRowMatches(row, search) ==
    \/ Contains(Lower(Get(row, "gstin", Str(<<>>)).v), search)
    \/ Contains(Lower(Get(row, "name", Str(<<>>)).v), search)

\* the test of line 506 calls .lower() on the two fields: AttributeError
\* unless each is a str.  "or" does not evaluate name when gstin matches.
CrnSearchRaises(data, search) ==
    \E i \in 1..Len(data) :
        \/ Get(data[i], "gstin", Str(<<>>)).t # "str"
        \/ /\ ~Contains(Lower(Get(data[i], "gstin", Str(<<>>)).v), search)
           /\ Get(data[i], "name", Str(<<>>)).t # "str"

\* col_map.get(order_col, "crn_inv_ratio"), lines 500-503
SortKeyOf(order_col) ==
    CASE order_col = 0 -> "_row_num"
      [] order_col = 2 -> "gstin"
      [] order_col = 3 -> "name"
      [] order_col = 4 -> "crn_inv_ratio"
      [] order_col = 5 -> "inv_count"
      [] order_col = 6 -> "crn_count"
      [] order_col = 7 -> "dbn_count"
      [] order_col = 8 -> "total_inv_val"
      [] order_col = 9 -> "total_crn_val"
      [] OTHER -> "crn_inv_ratio"

\* x.get(sort_key, 0), the key function of line 511
KeyOf(data, ref, sort_key) == Get(data[ref], sort_key, Num(0))

\* a < b between two keys of one type
ValLt(a, b) == IF a.t = "num" THEN a.v < b.v ELSE StrLt(a.v, b.v)

\* "<" raises TypeError between a str and a number, and on None; a sort of
\* two or more elements compares every element with another one
SortRaises(data, refs, sort_key) ==
    /\ Len(refs) >= 2
    /\ \/ \E i \in 1..Len(refs) : KeyOf(data, refs[i], sort_key).t = "none"
       \/ \E i, j \in 1..Len(refs) :
              KeyOf(data, refs[i], sort_key).t # KeyOf(data, refs[j], sort_key).t

\* binary insertion of a stable sort: x goes behind every element not greater
RECURSIVE InsertRef(_, _, _, _)
InsertRef(data, sorted, x, sort_key) ==
    IF sorted = <<>> THEN <<x>>
    ELSE IF ValLt(KeyOf(data, x, sort_key), KeyOf(data, sorted[Len(sorted)], sort_key))
         THEN Append(InsertRef(data, SubSeq(sorted, 1, Len(sorted) - 1), x, sort_key),
                     sorted[Len(sorted)])
         ELSE Append(sorted, x)

RECURSIVE SortAscending(_, _, _, _, _)
SortAscending(data, refs, i, acc, sort_key) ==
    IF i > Len(refs) THEN acc
    ELSE SortAscending(data, refs, i + 1, InsertRef(data, acc, refs[i], sort_key), sort_key)

\* A faulty variant of SortedRefs: a descending sort that reverses the ascending result.
SortThenReverse(data, refs, sort_key, reverse) ==
    LET up == SortAscending(data, refs, 1, <<>>, sort_key)
    IN IF reverse THEN Reverse(up) ELSE up

\* sorted(filtered, key=..., reverse=...): list.sort reverses the list, sorts
\* it ascending and stable, and reverses the result when reverse is set
SortedRefs(data, refs, sort_key, reverse) ==
    IF reverse
    THEN Reverse(SortAscending(data, Reverse(refs), 1, <<>>, sort_key))
    ELSE SortAscending(data, refs, 1, <<>>, sort_key)

\* A faulty variant of PageOf: the page starts one row late.
PageOffByOne(filtered, start, length) == PySlice(filtered, start + 1, start + length)

\* filtered[start:start + length], lines 475 and 514
PageOf(filtered, start, length) == PySlice(filtered, start, start + length)

--------------------------------------------------------------------------
(* Request threads *)

Threads == 1..NThreads

Missing == [state |-> "missing"]
Unreadable == [state |-> "unreadable"]
CsvOf(columns, rows) == [state |-> "ok", columns |-> columns, rows |-> rows]
JsonOf(data) == [state |-> "ok", data |-> data]

\* return [], {}: data 0 stands for a fresh empty list
EmptyCrn == [data |-> 0, stats |-> [n \in {} |-> 0]]

\* filtered and page are the locals of api_crn_ratio, as positions in data
NoLoc == [dup |-> EmptyDup, crn |-> EmptyCrn, filtered |-> <<>>, page |-> <<>>]
NoResp == [status |-> "none"]
NoReq == [kind |-> "none"]

Request(kind, start, length, search, order_col, order_dir) ==
    [kind |-> kind, start |-> start, length |-> length, search |-> search,
     order_col |-> order_col, order_dir |-> order_dir]

\* the list a handler's local variable data refers to
DataOf(id) == IF id = 0 THEN <<>> ELSE crn_objs[id]

\* an uncaught exception ends the request with a 500 response
Raise(t, error) ==
    /\ resp' = [resp EXCEPT ![t] = [status |-> "error", kind |-> req[t].kind,
                                    error |-> error]]
    /\ pc' = [pc EXCEPT ![t] = "done"]

\* where a handler goes on after load_duplicates returns
AfterDup(t) == IF req[t].kind = "index" THEN "crn_check" ELSE "dup_body"

\* where a handler goes on after load_crn_ratios returns
AfterCrn(t) ==
    IF req[t].kind = "index" THEN "index_body"
    ELSE IF req[t].kind = "export_crn_ratio" THEN "export_body"
    ELSE "crn_body"

\* a request arrives: flask dispatches it to the handler of its route
StartRequest(t, requests) ==
    /\ pc[t] = "idle"
    /\ \E r \in requests :
          /\ req' = [req EXCEPT ![t] = r]
          /\ pc' = [pc EXCEPT ![t] =
                       IF r.kind \in {"api_crn_ratio", "export_crn_ratio"}
                       THEN "crn_check" ELSE "dup_check"]
    /\ UNCHANGED <<csv_file, json_file, cache, crn_objs, loc, resp>>

\* the response has been sent: the handler's frame and its locals are gone
Finish(t) ==
    /\ pc[t] = "done"
    /\ pc' = [pc EXCEPT ![t] = "idle"]
    /\ req' = [req EXCEPT ![t] = NoReq]
    /\ loc' = [loc EXCEPT ![t] = NoLoc]
    /\ resp' = [resp EXCEPT ![t] = NoResp]
    /\ UNCHANGED <<csv_file, json_file, cache, crn_objs>>

\* "dup_rows" in _cache, line 40
DupCached == "dup_rows" \in DOMAIN cache

LoadDupCheck(t) ==
    /\ pc[t] = "dup_check"
    /\ pc' = [pc EXCEPT ![t] = IF DupCached THEN "dup_get_rows" ELSE "dup_read"]
    /\ UNCHANGED <<csv_file, json_file, cache, crn_objs, req, loc, resp>>

\* line 41 evaluates three subscriptions of _cache, left to right
LoadDupGetRows(t) ==
    /\ pc[t] = "dup_get_rows"
    /\ loc' = [loc EXCEPT ![t].dup.rows = cache["dup_rows"]]
    /\ pc' = [pc EXCEPT ![t] = "dup_get_cols"]
    /\ UNCHANGED <<csv_file, json_file, cache, crn_objs, req, resp>>

LoadDupGetCols(t) ==
    /\ pc[t] = "dup_get_cols"
    /\ IF "dup_display_cols" \in DOMAIN cache
       THEN /\ loc' = [loc EXCEPT ![t].dup.display_cols = cache["dup_display_cols"]]
            /\ pc' = [pc EXCEPT ![t] = "dup_get_stats"]
            /\ UNCHANGED resp
       ELSE /\ Raise(t, "KeyError")
            /\ UNCHANGED loc
    /\ UNCHANGED <<csv_file, json_file, cache, crn_objs, req>>

LoadDupGetStats(t) ==
    /\ pc[t] = "dup_get_stats"
    /\ IF "dup_stats" \in DOMAIN cache
       THEN /\ loc' = [loc EXCEPT ![t].dup.stats = cache["dup_stats"]]
            /\ pc' = [pc EXCEPT ![t] = AfterDup(t)]
            /\ UNCHANGED resp
       ELSE /\ Raise(t, "KeyError")
            /\ UNCHANGED loc
    /\ UNCHANGED <<csv_file, json_file, cache, crn_objs, req>>

\* lines 43-93: a missing file, or one that cannot be read, returns [], [], {}
LoadDupRead(t) ==
    /\ pc[t] = "dup_read"
    /\ IF csv_file.state = "ok"
       THEN /\ loc' = [loc EXCEPT ![t].dup =
                          GroupDuplicates(csv_file.columns, csv_file.rows)]
            /\ pc' = [pc EXCEPT ![t] = "dup_put_rows"]
       ELSE /\ loc' = [loc EXCEPT ![t].dup = EmptyDup]
            /\ pc' = [pc EXCEPT ![t] = AfterDup(t)]
    /\ UNCHANGED <<csv_file, json_file, cache, crn_objs, req, resp>>

\* lines 95-97: three separate writes
LoadDupPutRows(t) ==
    /\ pc[t] = "dup_put_rows"
    /\ cache' = Put(cache, "dup_rows", loc[t].dup.rows)
    /\ pc' = [pc EXCEPT ![t] = "dup_put_cols"]
    /\ UNCHANGED <<csv_file, json_file, crn_objs, req, loc, resp>>

LoadDupPutCols(t) ==
    /\ pc[t] = "dup_put_cols"
    /\ cache' = Put(cache, "dup_display_cols", loc[t].dup.display_cols)
    /\ pc' = [pc EXCEPT ![t] = "dup_put_stats"]
    /\ UNCHANGED <<csv_file, json_file, crn_objs, req, loc, resp>>

LoadDupPutStats(t) ==
    /\ pc[t] = "dup_put_stats"
    /\ cache' = Put(cache, "dup_stats", loc[t].dup.stats)
    /\ pc' = [pc EXCEPT ![t] = AfterDup(t)]
    /\ UNCHANGED <<csv_file, json_file, crn_objs, req, loc, resp>>

\* "crn_data" in _cache, line 102
CrnCached == "crn_data" \in DOMAIN cache

LoadCrnCheck(t) ==
    /\ pc[t] = "crn_check"
    /\ pc' = [pc EXCEPT ![t] = IF CrnCached THEN "crn_get_data" ELSE "crn_read"]
    /\ UNCHANGED <<csv_file, json_file, cache, crn_objs, req, loc, resp>>

\* line 103 evaluates two subscriptions of _cache
LoadCrnGetData(t) ==
    /\ pc[t] = "crn_get_data"
    /\ loc' = [loc EXCEPT ![t].crn.data = cache["crn_data"]]
    /\ pc' = [pc EXCEPT ![t] = "crn_get_stats"]
    /\ UNCHANGED <<csv_file, json_file, cache, crn_objs, req, resp>>

LoadCrnGetStats(t) ==
    /\ pc[t] = "crn_get_stats"
    /\ IF "crn_stats" \in DOMAIN cache
       THEN /\ loc' = [loc EXCEPT ![t].crn.stats = cache["crn_stats"]]
            /\ pc' = [pc EXCEPT ![t] = AfterCrn(t)]
            /\ UNCHANGED resp
       ELSE /\ Raise(t, "KeyError")
            /\ UNCHANGED loc
    /\ UNCHANGED <<csv_file, json_file, cache, crn_objs, req>>

\* lines 105-119: json.load builds a new list, which only this thread holds
\* until it is cached
LoadCrnRead(t) ==
    /\ pc[t] = "crn_read"
    /\ IF json_file.state = "ok"
       THEN LET stats == CrnStats(json_file.data)
            IN IF stats.ok
               THEN /\ crn_objs' = [crn_objs EXCEPT ![t] = json_file.data]
                    /\ loc' = [loc EXCEPT ![t].crn = [data |-> t, stats |-> stats]]
                    /\ pc' = [pc EXCEPT ![t] = "crn_put_data"]
                    /\ UNCHANGED resp
               ELSE /\ Raise(t, "TypeError")
                    /\ UNCHANGED <<crn_objs, loc>>
       ELSE /\ loc' = [loc EXCEPT ![t].crn = EmptyCrn]
            /\ pc' = [pc EXCEPT ![t] = AfterCrn(t)]
            /\ UNCHANGED <<crn_objs, resp>>
    /\ UNCHANGED <<csv_file, json_file, cache, req>>

\* lines 121-122: two separate writes
LoadCrnPutData(t) ==
    /\ pc[t] = "crn_put_data"
    /\ cache' = Put(cache, "crn_data", loc[t].crn.data)
    /\ pc' = [pc EXCEPT ![t] = "crn_put_stats"]
    /\ UNCHANGED <<csv_file, json_file, crn_objs, req, loc, resp>>

LoadCrnPutStats(t) ==
    /\ pc[t] = "crn_put_stats"
    /\ cache' = Put(cache, "crn_stats", loc[t].crn.stats)
    /\ pc' = [pc EXCEPT ![t] = AfterCrn(t)]
    /\ UNCHANGED <<csv_file, json_file, crn_objs, req, loc, resp>>

--------------------------------------------------------------------------
(* Handlers *)

Iota(n) == [i \in 1..n |-> i]

\* index(), lines 446-458: the values handed to the template
IndexBody(t) ==
    /\ pc[t] = "index_body"
    /\ LET dup == loc[t].dup
           crn == loc[t].crn
           has_dup == Len(dup.rows.refs) > 0
           has_crn == Len(DataOf(crn.data)) > 0
       IN resp' = [resp EXCEPT ![t] =
              [status |-> "ok", kind |-> "index",
               display_cols |-> dup.display_cols,
               dup_stats |-> IF has_dup THEN dup.stats ELSE [n \in {} |-> 0],
               has_dup_data |-> has_dup,
               crn_stats |-> IF has_crn THEN crn.stats ELSE [n \in {} |-> 0],
               has_crn_data |-> has_crn]]
    /\ pc' = [pc EXCEPT ![t] = "done"]
    /\ UNCHANGED <<csv_file, json_file, cache, crn_objs, req, loc>>

\* api_duplicates(), lines 465-485, after load_duplicates returned
ApiDuplicatesBody(t) ==
    /\ pc[t] = "dup_body"
    /\ LET rows == loc[t].dup.rows
           start == req[t].start
           search == Lower(Strip(req[t].search))
           filtered == IF search # <<>>
                       THEN SelectSeq(rows.refs,
                                LAMBDA i : DupRowMatches(rows.objs[i], search))
                       ELSE rows.refs
           page == PageOf(filtered, start, req[t].length)
           result == [j \in 1..Len(page) |->
                         DupResultRow(rows.objs[page[j]], start, j - 1)]
       IN resp' = [resp EXCEPT ![t] =
              [status |-> "ok", kind |-> "api_duplicates",
               recordsTotal |-> Len(rows.refs),
               recordsFiltered |-> Len(filtered),
               filtered |-> filtered, page |-> page, data |-> result]]
    /\ pc' = [pc EXCEPT ![t] = "done"]
    /\ UNCHANGED <<csv_file, json_file, cache, crn_objs, req, loc>>

\* api_crn_ratio(), lines 492-516, after load_crn_ratios returned.  The rows
\* of the page are the objects of the list data: line 516 writes into them.
ApiCrnRatioBody(t) ==
    /\ pc[t] = "crn_body"
    /\ LET id == loc[t].crn.data
           data == DataOf(id)
           start == req[t].start
           search == Lower(Strip(req[t].search))
           sort_key == SortKeyOf(req[t].order_col)
           found == IF search # <<>>
                    THEN SelectSeq(Iota(Len(data)),
                             LAMBDA i : CrnRowMatches(data[i], search))
                    ELSE Iota(Len(data))
           filtered == IF sort_key # "_row_num"
                       THEN SortedRefs(data, found, sort_key, req[t].order_dir = "desc")
                       ELSE found
           page == PageOf(filtered, start, req[t].length)
           written == [i \in 1..Len(data) |->
                          IF \E j \in 1..Len(page) : page[j] = i
                          THEN Put(data[i], "_row_num",
                                   Num(start + (CHOOSE j \in 1..Len(page) : page[j] = i)))
                          ELSE data[i]]
       IN IF search # <<>> /\ CrnSearchRaises(data, search)
          THEN Raise(t, "AttributeError") /\ UNCHANGED <<crn_objs, loc>>
          ELSE IF sort_key # "_row_num" /\ SortRaises(data, found, sort_key)
          THEN Raise(t, "TypeError") /\ UNCHANGED <<crn_objs, loc>>
          ELSE /\ crn_objs' = IF id = 0 THEN crn_objs
                              ELSE [crn_objs EXCEPT ![id] = written]
               /\ loc' = [loc EXCEPT ![t].filtered = filtered, ![t].page = page]
               /\ pc' = [pc EXCEPT ![t] = "crn_respond"]
               /\ UNCHANGED resp
    /\ UNCHANGED <<csv_file, json_file, cache, req>>

\* api_crn_ratio(), lines 518-519: jsonify serialises the dicts of page as
\* they are when it runs.
ApiCrnRatioRespond(t) ==
    /\ pc[t] = "crn_respond"
    /\ LET data == DataOf(loc[t].crn.data)
           page == loc[t].page
       IN resp' = [resp EXCEPT ![t] =
              [status |-> "ok", kind |-> "api_crn_ratio",
               recordsTotal |-> Len(data),
               recordsFiltered |-> Len(loc[t].filtered),
               filtered |-> loc[t].filtered, page |-> page,
               data |-> [j \in 1..Len(page) |-> data[page[j]]]]]
    /\ pc' = [pc EXCEPT ![t] = "done"]
    /\ UNCHANGED <<csv_file, json_file, cache, crn_objs, req, loc>>

\* fieldnames of the DictWriter, lines 538-540
ExportFields ==
    <<"gstin", "name", "crn_inv_ratio", "inv_count", "crn_count", "dbn_count",
      "total_inv_val", "total_crn_val">>

\* the text csv.writer writes for a value: "" for None, the text of a str,
\* repr() of a float (held in tenths: 7 is written 0.7)
CsvCell(v) ==
    IF v.t = "none" THEN <<>>
    ELSE IF v.t = "str" THEN v.v
    ELSE StrOfNat(v.v \div 10) \o <<46>> \o StrOfNat(v.v % 10)

\* DictWriter._dict_to_list: a key outside fieldnames raises ValueError
\* (extrasaction is 'raise')
ExportRaises(data) ==
    \E i \in 1..Len(data) : \E k \in DOMAIN data[i] :
        \A f \in 1..Len(ExportFields) : ExportFields[f] # k

\* the line written for a record: a cell for each field of fieldnames, the
\* empty text (restval) for a field the record lacks
ExportLine(row) ==
    [f \in 1..Len(ExportFields) |-> CsvCell(Get(row, ExportFields[f], Str(<<>>)))]

\* export_crn_ratio(), lines 533-547, after load_crn_ratios returned
ExportCrnRatioBody(t) ==
    /\ pc[t] = "export_body"
    /\ LET data == DataOf(loc[t].crn.data)
       IN IF data = <<>>
          THEN /\ resp' = [resp EXCEPT ![t] =
                      [status |-> "not_found", kind |-> "export_crn_ratio"]]
               /\ pc' = [pc EXCEPT ![t] = "done"]
          ELSE IF ExportRaises(data)
          THEN Raise(t, "ValueError")
          ELSE /\ resp' = [resp EXCEPT ![t] =
                      [status |-> "ok", kind |-> "export_crn_ratio",
                       header |-> ExportFields,
                       lines |-> [i \in 1..Len(data) |-> ExportLine(data[i])]]]
               /\ pc' = [pc EXCEPT ![t] = "done"]
    /\ UNCHANGED <<csv_file, json_file, cache, crn_objs, req, loc>>

\* the steps of load_duplicates
LoadDuplicates(t) ==
    \/ LoadDupCheck(t)
    \/ LoadDupGetRows(t)
    \/ LoadDupGetCols(t)
    \/ LoadDupGetStats(t)
    \/ LoadDupRead(t)
    \/ LoadDupPutRows(t)
    \/ LoadDupPutCols(t)
    \/ LoadDupPutStats(t)

\* the steps of load_crn_ratios
LoadCrnRatios(t) ==
    \/ LoadCrnCheck(t)
    \/ LoadCrnGetData(t)
    \/ LoadCrnGetStats(t)
    \/ LoadCrnRead(t)
    \/ LoadCrnPutData(t)
    \/ LoadCrnPutStats(t)

\* the state of the process when the module has been imported
InitProcess ==
    /\ cache = [k \in {} |-> 0]
    /\ crn_objs = [t \in Threads |-> <<>>]
    /\ pc = [t \in Threads |-> "idle"]
    /\ req = [t \in Threads |-> NoReq]
    /\ loc = [t \in Threads |-> NoLoc]
    /\ resp = [t \in Threads |-> NoResp]

SeqsUpTo(S, n) == UNION {[1..k -> S] : k \in 0..n}

--------------------------------------------------------------------------
(* Grouping: one request thread, files with colliding, padded, empty and   *)
(* differently ordered keys.                                               *)

GroupColumns == KEY_COLS \o <<"ValDtls_TotInvVal">>

GroupRow(b, s, d, n, v) ==
    [BuyerDtls_Gstin |-> b, SellerDtls_Gstin |-> s, DocDtls_Dt |-> d,
     DocDtls_No |-> n, ValDtls_TotInvVal |-> v]

GroupRowKinds ==
    { GroupRow(Str(<<97>>), Str(<<97>>), Str(<<97>>), Str(<<97>>), Str(<<53>>)),
      GroupRow(Str(<<32, 97>>), Str(<<97, 32>>), Str(<<97>>), Str(<<97>>), Str(<<120>>)),
      GroupRow(Str(<<98>>), Str(<<97>>), Str(<<97>>), Str(<<97>>), None),
      GroupRow(Str(<<97>>), Str(<<98>>), Str(<<97>>), Str(<<97>>), Str(<<53>>)),
      GroupRow(Str(<<97>>), Str(<<97, 98>>), Str(<<97>>), Str(<<97>>), Str(<<53>>)),
      GroupRow(Str(<<97>>), Str(<<97>>), Str(<<32>>), Str(<<97>>), Str(<<53>>)),
      GroupRow(Str(<<97>>), Str(<<97>>), Str(<<97>>), None, Str(<<53>>)) }

GroupRequests ==
    { Request("api_duplicates", 0, 100, <<>>, 4, "desc"),
      Request("api_duplicates", 1, 2, <<>>, 4, "desc") }

InitGroup ==
    /\ csv_file \in {CsvOf(GroupColumns, rows) : rows \in SeqsUpTo(GroupRowKinds, MaxRows)}
    /\ json_file = Missing
    /\ InitProcess

NextGroup ==
    \E t \in {1} :
        \/ StartRequest(t, GroupRequests)
        \/ LoadDuplicates(t)
        \/ ApiDuplicatesBody(t)
        \/ Finish(t)

SpecGroup == InitGroup /\ [][NextGroup]_vars

--------------------------------------------------------------------------
(* Claims about the grouping, stated on the file and on what                *)
(* load_duplicates returned to the handler.                                 *)

\* s without its leading and trailing whitespace, stated on positions
TrimmedText(s) ==
    LET inner == {i \in 1..Len(s) : ~IsSpace(s[i])}
    IN IF inner = {} THEN <<>>
       ELSE SubSeq(s, CHOOSE i \in inner : \A j \in inner : i <= j,
                      CHOOSE i \in inner : \A j \in inner : i >= j)

\* the four trimmed key components of an input record (an absent or empty
\* cell is the empty text)
TrimmedKey(row) ==
    [k \in 1..Len(KEY_COLS) |->
        IF KEY_COLS[k] \in DOMAIN row /\ row[KEY_COLS[k]].t = "str"
        THEN TrimmedText(row[KEY_COLS[k]].v) ELSE <<>>]

SharingKey(rows, i) == {j \in 1..Len(rows) : TrimmedKey(rows[j]) = TrimmedKey(rows[i])}

\* input record i has four non-empty trimmed key components and shares its
\* trimmed key with another input record
Qualifies(rows, i) ==
    /\ \A k \in 1..Len(KEY_COLS) : TrimmedKey(rows[i])[k] # <<>>
    /\ Cardinality(SharingKey(rows, i)) >= 2

\* x before y in the order of strings: x is a proper prefix of y, or the
\* first character in which they differ is smaller in x
TextBefore(x, y) ==
    \E m \in 0..Min2(Len(x), Len(y)) :
        /\ SubSeq(x, 1, m) = SubSeq(y, 1, m)
        /\ \/ m = Len(x) /\ m < Len(y)
           \/ m < Len(x) /\ m < Len(y) /\ x[m + 1] < y[m + 1]

\* key a before key b: the first component in which they differ is before
KeyBefore(a, b) ==
    \E c \in 1..Len(KEY_COLS) :
        /\ \A d \in 1..(c - 1) : a[d] = b[d]
        /\ TextBefore(a[c], b[c])

QualifyingKeys(rows) == {TrimmedKey(rows[i]) : i \in {j \in 1..Len(rows) : Qualifies(rows, j)}}

\* the 0-based rank of a key among the qualifying keys
RankOf(rows, key) == Cardinality({k \in QualifyingKeys(rows) : KeyBefore(k, key)})

\* C1: the grouped output of load_duplicates holds exactly the input records
\* whose four trimmed key components are non-empty and whose trimmed key is
\* shared by at least two input records, each once, each with a _group_size
\* that is >= 2 and is the number of input records sharing its trimmed key.
C1_GroupedOutputIsExactlyTheDuplicates ==
    \A t \in Threads : pc[t] = "dup_body" /\ csv_file.state = "ok" =>
        LET out == loc[t].dup.rows
            rows == csv_file.rows
        IN /\ {out.refs[p] : p \in 1..Len(out.refs)}
                  = {i \in 1..Len(rows) : Qualifies(rows, i)}
           /\ \A p, q \in 1..Len(out.refs) : p # q => out.refs[p] # out.refs[q]
           /\ \A p \in 1..Len(out.refs) :
                  LET i == out.refs[p]
                  IN /\ \A c \in DOMAIN rows[i] : out.objs[i][c] = rows[i][c]
                     /\ out.objs[i]["_group_size"].v >= 2
                     /\ out.objs[i]["_group_size"]
                            = Num(Cardinality(SharingKey(rows, i)))

\* a load returned a group one of whose members had padded key cells, from a
\* file that also holds a record with an empty key component and a record
\* whose key occurs once
C1_Witness ==
    /\ pc[1] = "dup_body" /\ csv_file.state = "ok"
    /\ LET out == loc[1].dup.rows
           rows == csv_file.rows
       IN /\ \E p \in 1..Len(out.refs) :
                 \E k \in 1..Len(KEY_COLS) :
                     rows[out.refs[p]][KEY_COLS[k]].v # TrimmedKey(rows[out.refs[p]])[k]
          /\ \E i \in 1..Len(rows) : \E k \in 1..Len(KEY_COLS) : TrimmedKey(rows[i])[k] = <<>>
          /\ \E i \in 1..Len(rows) :
                 /\ \A k \in 1..Len(KEY_COLS) : TrimmedKey(rows[i])[k] # <<>>
                 /\ SharingKey(rows, i) = {i}

\* C2: the _group_id of every output row is the 0-based rank of its trimmed
\* key among the keys of the qualifying groups in ascending (buyer, seller,
\* date, number) string order; the ids in use are exactly 0..num_groups-1;
\* the file read backwards gives every key the same id.
C2_GroupIdIsRankOfKey ==
    \A t \in Threads : pc[t] = "dup_body" /\ csv_file.state = "ok" =>
        LET out == loc[t].dup.rows
            rows == csv_file.rows
            back == GroupDuplicates(csv_file.columns, Reverse(rows)).rows
        IN /\ \A p \in 1..Len(out.refs) :
                  out.objs[out.refs[p]]["_group_id"]
                      = Num(RankOf(rows, TrimmedKey(rows[out.refs[p]])))
           /\ {out.objs[out.refs[p]]["_group_id"].v : p \in 1..Len(out.refs)}
                  = 0..(loc[t].dup.stats.num_groups - 1)
           /\ loc[t].dup.stats.num_groups = Cardinality(QualifyingKeys(rows))
           /\ \A p \in 1..Len(out.refs), q \in 1..Len(back.refs) :
                  TrimmedKey(out.objs[out.refs[p]]) = TrimmedKey(back.objs[back.refs[q]])
                      => out.objs[out.refs[p]]["_group_id"]
                             = back.objs[back.refs[q]]["_group_id"]

\* a load returned two groups from a file whose first record belongs to the
\* group with the greater key
C2_Witness ==
    /\ pc[1] = "dup_body" /\ csv_file.state = "ok"
    /\ loc[1].dup.stats.num_groups = 2
    /\ \E p \in 1..Len(loc[1].dup.rows.refs) :
           /\ loc[1].dup.rows.refs[p] = 1
           /\ loc[1].dup.rows.objs[1]["_group_id"] = Num(1)

--------------------------------------------------------------------------
(* Queries: one request thread, both endpoints, every start in -1..MaxStart  *)
(* and every length in -1..MaxLength.                                       *)

QueryColumns == KEY_COLS \o <<"DocDtls_Typ", "Irn">>

QueryRow(b, typ, irn) ==
    [BuyerDtls_Gstin |-> b, SellerDtls_Gstin |-> Str(<<97>>),
     DocDtls_Dt |-> Str(<<97>>), DocDtls_No |-> Str(<<97>>),
     DocDtls_Typ |-> typ, Irn |-> irn]

\* "Irn" is no display column: x occurs only there, b also in a DocDtls_Typ
QueryRowKinds ==
    { QueryRow(Str(<<97>>), Str(<<65, 98>>), Str(<<120>>)),
      QueryRow(Str(<<97>>), Str(<<>>), Str(<<98>>)),
      QueryRow(Str(<<99>>), Str(<<97>>), None) }

\* seller records: a full one, one that ties with it, one with other values
\* and one that lacks name, crn_inv_ratio and total_crn_val
CrnFull == [gstin |-> Str(<<97>>), name |-> Str(<<120>>),
            crn_inv_ratio |-> Num(7), total_crn_val |-> Num(50)]
CrnTied == [gstin |-> Str(<<98>>), name |-> Str(<<120>>),
            crn_inv_ratio |-> Num(7), total_crn_val |-> Num(20)]
CrnOther == [gstin |-> Str(<<97, 98>>), name |-> Str(<<65>>),
             crn_inv_ratio |-> Num(12), total_crn_val |-> Num(0)]
CrnBare == [gstin |-> Str(<<98>>)]

QueryCsvFiles == {CsvOf(QueryColumns, rows) : rows \in SeqsUpTo(QueryRowKinds, MaxQueryRows)}
QueryJsonFiles ==
    {JsonOf([i \in 1..n |-> IF i % 2 = 1 THEN CrnFull ELSE CrnBare]) : n \in 0..MaxCrn}

Starts == (-1)..MaxStart
Lengths == (-1)..MaxLength

QueryRequests ==
    { Request("api_duplicates", start, length, search, 4, "desc") :
        start \in Starts, length \in Lengths,
        search \in {<<>>, <<32, 66, 32>>, <<120>>} }
    \cup
    { Request("api_crn_ratio", start, length, search, col, "desc") :
        start \in Starts, length \in Lengths,
        search \in {<<>>, <<65>>}, col \in {4} }

InitQuery ==
    /\ \/ csv_file \in QueryCsvFiles /\ json_file = Missing
       \/ csv_file = Missing /\ json_file \in QueryJsonFiles
    /\ InitProcess

NextQuery ==
    \E t \in {1} :
        \/ StartRequest(t, QueryRequests)
        \/ LoadDuplicates(t)
        \/ LoadCrnRatios(t)
        \/ ApiDuplicatesBody(t)
        \/ ApiCrnRatioBody(t)
        \/ ApiCrnRatioRespond(t)
        \/ Finish(t)

SpecQuery == InitQuery /\ [][NextQuery]_vars

--------------------------------------------------------------------------
(* Claims about the queries, stated on a finished request: its parameters   *)
(* req[t], its response resp[t] and the table its loader returned.          *)

IsQuery(t) ==
    /\ pc[t] = "done"
    /\ req[t].kind \in {"api_duplicates", "api_crn_ratio"}

\* the number of rows of the table the handler of thread t queried
TableSize(t) ==
    IF req[t].kind = "api_duplicates" THEN Len(loc[t].dup.rows.refs)
    ELSE Len(DataOf(loc[t].crn.data))

\* C3: every response of /api/duplicates and /api/crn-ratio, whatever integer
\* start and length the request carried, has recordsFiltered <= recordsTotal,
\* at most length rows in data and at most recordsFiltered rows in data.
C3_CountsBoundThePage ==
    \A t \in Threads : IsQuery(t) /\ resp[t].status = "ok" =>
        /\ resp[t].recordsFiltered <= resp[t].recordsTotal
        /\ Len(resp[t].data) <= req[t].length
        /\ Len(resp[t].data) <= resp[t].recordsFiltered

\* C4: with start >= 0 and length >= 0 the request ends in a normal response
\* whose page is the elements of the filtered (and sorted) sequence F at
\* 0-based indices start .. min(start+length, n)-1, in that order, each
\* returned row carrying the cells of its element; the page is empty when
\* start >= n, and the counts are the table's size and n.
C4_PageIsTheRequestedWindow ==
    \A t \in Threads : IsQuery(t) /\ req[t].start >= 0 /\ req[t].length >= 0 =>
        /\ resp[t].status = "ok"
        /\ LET F == resp[t].filtered
               n == Len(F)
               last == Min2(req[t].start + req[t].length, n)
               size == Max2(last - req[t].start, 0)
           IN /\ Len(resp[t].page) = size
              /\ Len(resp[t].data) = size
              /\ \A j \in 1..size : resp[t].page[j] = F[req[t].start + j]
              /\ \A j \in 1..size :
                    LET row == IF req[t].kind = "api_duplicates"
                               THEN loc[t].dup.rows.objs[F[req[t].start + j]]
                               ELSE DataOf(loc[t].crn.data)[F[req[t].start + j]]
                    IN \A k \in DOMAIN row \ {"_row_num"} :
                           \/ resp[t].data[j][k] = row[k]
                           \/ ~Truthy(row[k]) /\ req[t].kind = "api_duplicates"
              /\ (req[t].start >= n => resp[t].data = <<>>)
              /\ resp[t].recordsFiltered = n
              /\ resp[t].recordsTotal = TableSize(t)

\* a page that starts behind the first row and is cut short by the end of
\* the filtered sequence
C4_Witness ==
    \E t \in Threads :
        /\ IsQuery(t) /\ resp[t].status = "ok"
        /\ req[t].start >= 1
        /\ req[t].start + req[t].length > resp[t].recordsFiltered
        /\ Len(resp[t].data) >= 1
        /\ Len(resp[t].data) < req[t].length

\* s occurs, whatever the case, in the text of a non-empty display field of row
InDisplayField(row, display_cols, s) ==
    \E j \in 1..Len(display_cols) :
        /\ display_cols[j] \in DOMAIN row
        /\ Truthy(row[display_cols[j]])
        /\ Contains(Lower(PyStr(row[display_cols[j]])), s)

\* C5: in the duplicate view, with a non-empty search text s, a row is in the
\* filtered set if and only if s is a case-insensitive substring of the text
\* of one of its display fields.
C5_SearchMatchesDisplayFieldsOnly ==
    \A t \in Threads :
        /\ pc[t] = "done" /\ req[t].kind = "api_duplicates" /\ resp[t].status = "ok"
        /\ Lower(Strip(req[t].search)) # <<>>
        => LET tbl == loc[t].dup.rows
               s == Lower(Strip(req[t].search))
           IN \A p \in 1..Len(tbl.refs) :
                  (\E q \in 1..Len(resp[t].filtered) : resp[t].filtered[q] = tbl.refs[p])
                      <=> InDisplayField(tbl.objs[tbl.refs[p]], loc[t].dup.display_cols, s)

--------------------------------------------------------------------------
(* Sorting: one request thread, /api/crn-ratio over seller lists with equal *)
(* keys and with records that lack fields, sorted by no column, by gstin,   *)
(* by name and by crn_inv_ratio, ascending and descending.                  *)

SortJsonFiles == {JsonOf(data) : data \in SeqsUpTo({CrnFull, CrnTied, CrnBare}, MaxCrn)}

SortRequests ==
    { Request("api_crn_ratio", start, MaxCrn, search, col, dir) :
        start \in {0}, search \in {<<>>, <<66>>},
        col \in {0, 2, 3, 4}, dir \in {"asc", "desc"} }

InitSort ==
    /\ csv_file = Missing
    /\ json_file \in SortJsonFiles
    /\ InitProcess

NextSort ==
    \E t \in {1} :
        \/ StartRequest(t, SortRequests)
        \/ LoadCrnRatios(t)
        \/ ApiCrnRatioBody(t)
        \/ ApiCrnRatioRespond(t)
        \/ Finish(t)

SpecSort == InitSort /\ [][NextSort]_vars

--------------------------------------------------------------------------
(* Claims about sorting, stated on a finished /api/crn-ratio request and    *)
(* on the file, which no step of SpecSort changes.                          *)

\* the value a record is sorted by: the field's, 0 for a record without it
FieldOrZero(row, field) == IF field \in DOMAIN row THEN row[field] ELSE Num(0)

\* a is not after b, for two numbers or two texts
NotAfter(a, b) ==
    IF a.t = "num" THEN a.v <= b.v ELSE a.v = b.v \/ TextBefore(a.v, b.v)

IsSortedQuery(t) ==
    /\ pc[t] = "done" /\ req[t].kind = "api_crn_ratio" /\ resp[t].status = "ok"
    /\ json_file.state = "ok"
    /\ SortKeyOf(req[t].order_col) # "_row_num"

\* C6: a sorted /api/crn-ratio response holds the records the search selects
\* from the file, ordered by the sort field in the requested direction, two
\* records with equal values in the order they have in the file; the rows it
\* returns are those records with their row number, so the same query on the
\* same file returns the same rows whatever was queried before.
C6_SortIsOrderedAndStable ==
    \A t \in Threads : IsSortedQuery(t) =>
        LET F == resp[t].filtered
            file == json_file.data
            field == SortKeyOf(req[t].order_col)
            s == Lower(Strip(req[t].search))
            key(p) == FieldOrZero(file[F[p]], field)
        IN /\ {F[p] : p \in 1..Len(F)}
                  = {i \in 1..Len(file) : s = <<>> \/ CrnRowMatches(file[i], s)}
           /\ \A p, q \in 1..Len(F) : p < q =>
                  /\ F[p] # F[q]
                  /\ IF req[t].order_dir = "desc"
                     THEN NotAfter(key(q), key(p)) ELSE NotAfter(key(p), key(q))
                  /\ (key(p) = key(q) => F[p] < F[q])
           /\ resp[t].page = PySlice(F, req[t].start, req[t].start + req[t].length)
           /\ \A j \in 1..Len(resp[t].page) :
                  resp[t].data[j]
                      = Put(file[resp[t].page[j]], "_row_num", Num(req[t].start + j))

\* a descending sort that moved records, of three records or more, two of
\* them with equal values of the sort field and one with another value
C6_Witness ==
    \E t \in Threads :
        /\ IsSortedQuery(t) /\ req[t].order_dir = "desc"
        /\ LET F == resp[t].filtered
               field == SortKeyOf(req[t].order_col)
           IN /\ \E p, q, r \in 1..Len(F) :
                    /\ p < q
                    /\ FieldOrZero(json_file.data[F[p]], field)
                           = FieldOrZero(json_file.data[F[q]], field)
                    /\ FieldOrZero(json_file.data[F[r]], field)
                           # FieldOrZero(json_file.data[F[p]], field)
              /\ F # Iota(Len(F))

\* the cached tables, once their loader has written all its cache entries
DupLoaded == {"dup_rows", "dup_display_cols", "dup_stats"} \subseteq DOMAIN cache
CrnLoaded == {"crn_data", "crn_stats"} \subseteq DOMAIN cache

CachedDup ==
    IF DupLoaded THEN <<cache["dup_rows"], cache["dup_display_cols"], cache["dup_stats"]>>
    ELSE <<>>

CachedCrn ==
    IF CrnLoaded THEN <<crn_objs[cache["crn_data"]], cache["crn_stats"]>> ELSE <<>>

\* C8: once a table is loaded no step of a request changes it: every cached
\* record keeps its fields and its values.
C8_RequestsLeaveCachedTablesUnchanged ==
    [][ /\ (DupLoaded => CachedDup' = CachedDup)
        /\ (CrnLoaded => CachedCrn' = CachedCrn) ]_vars

\* C10: every /api/crn-ratio request over records that may lack fields ends
\* in a normal response.
C10_RatioQueryNeverFails ==
    \A t \in Threads :
        pc[t] = "done" /\ req[t].kind = "api_crn_ratio" => resp[t].status = "ok"

--------------------------------------------------------------------------
(* Concurrent requests: NThreads request threads (the development server    *)
(* handles each request in a thread of its own), every step of the loaders  *)
(* interleaved, over files that stay as they are.                           *)

CsvPair ==
    CsvOf(QueryColumns, << QueryRow(Str(<<97>>), Str(<<97>>), None),
                           QueryRow(Str(<<97>>), Str(<<98>>), None) >>)
CsvTriple ==
    CsvOf(KEY_COLS, << QueryRow(Str(<<98>>), Str(<<97>>), None),
                       QueryRow(Str(<<98>>), Str(<<97>>), None),
                       QueryRow(Str(<<98>>), Str(<<97>>), None) >>)

RaceRequests ==
    { Request("index", 0, 0, <<>>, 4, "desc"),
      Request("api_duplicates", 0, 100, <<>>, 4, "desc"),
      Request("api_crn_ratio", 0, 50, <<>>, 4, "desc") }

InitRace ==
    /\ csv_file \in {CsvPair, Missing}
    /\ json_file \in {JsonOf(<<CrnTied, CrnOther>>), Missing}
    /\ InitProcess

NextRace ==
    \E t \in Threads :
        \/ StartRequest(t, RaceRequests)
        \/ LoadDuplicates(t)
        \/ LoadCrnRatios(t)
        \/ IndexBody(t)
        \/ ApiDuplicatesBody(t)
        \/ ApiCrnRatioBody(t)
        \/ ApiCrnRatioRespond(t)
        \/ Finish(t)

SpecRace == InitRace /\ [][NextRace]_vars

--------------------------------------------------------------------------
(* The lifetime of the process: one request thread, and an environment that *)
(* replaces, deletes or damages the files between any two steps.            *)

LifeCsvFiles == {Missing, Unreadable, CsvPair, CsvTriple}
LifeJsonFiles == {Missing, Unreadable, JsonOf(<<CrnFull>>), JsonOf(<<CrnTied, CrnOther>>)}

\* the file is replaced, deleted or damaged from outside the process
ChangeCsvFile ==
    /\ csv_file' \in LifeCsvFiles \ {csv_file}
    /\ UNCHANGED <<json_file, cache, crn_objs, pc, req, loc, resp>>

ChangeJsonFile ==
    /\ json_file' \in LifeJsonFiles \ {json_file}
    /\ UNCHANGED <<csv_file, cache, crn_objs, pc, req, loc, resp>>

InitLife ==
    /\ csv_file \in LifeCsvFiles
    /\ json_file \in LifeJsonFiles
    /\ InitProcess

NextLife ==
    \/ \E t \in {1} :
          \/ StartRequest(t, RaceRequests)
          \/ LoadDuplicates(t)
          \/ LoadCrnRatios(t)
          \/ IndexBody(t)
          \/ ApiDuplicatesBody(t)
          \/ ApiCrnRatioBody(t)
          \/ ApiCrnRatioRespond(t)
          \/ Finish(t)
    \/ ChangeCsvFile
    \/ ChangeJsonFile

SpecLife == InitLife /\ [][NextLife]_vars

--------------------------------------------------------------------------
(* Claims about the cache *)

\* what load_duplicates returns for the file as it is
SequentialDup ==
    IF csv_file.state = "ok" THEN GroupDuplicates(csv_file.columns, csv_file.rows)
    ELSE EmptyDup

\* a record without the row number a query wrote into it
WithoutRowNum(row) == [k \in DOMAIN row \ {"_row_num"} |-> row[k]]

\* C7: once a loader has cached its table, the cached rows, columns and
\* statistics stay what they are whatever happens to the file, a call that
\* finds the table cached does not read the file, and a call returns what is
\* cached.
C7_LoadedTablesStayAsLoaded ==
    [][ /\ (DupLoaded => CachedDup' = CachedDup)
        /\ (CrnLoaded => CachedCrn' = CachedCrn)
        /\ \A t \in Threads :
              /\ (pc[t] = "dup_check" /\ DupLoaded => pc'[t] # "dup_read")
              /\ (pc[t] = "crn_check" /\ CrnLoaded => pc'[t] # "crn_read")
              /\ (pc[t] = "dup_body" /\ DupLoaded =>
                     <<loc[t].dup.rows, loc[t].dup.display_cols, loc[t].dup.stats>>
                         = CachedDup)
              /\ (pc[t] = "crn_body" /\ CrnLoaded =>
                     <<crn_objs[loc[t].crn.data], loc[t].crn.stats>> = CachedCrn)
      ]_vars

\* C9: with every interleaving of the steps of concurrent calls, each request
\* ends without an error, and what load_duplicates and load_crn_ratios hand to
\* the handler is what one sequential load of the file returns: rows, columns
\* and statistics of one and the same load (row numbers written by queries
\* left aside).
C9_RacingLoadsAreSafe ==
    \A t \in Threads :
        /\ (pc[t] = "done" => resp[t].status = "ok")
        /\ (pc[t] \in {"dup_body", "index_body"} => loc[t].dup = SequentialDup)
        /\ (pc[t] \in {"crn_body", "index_body"} =>
               IF json_file.state = "ok"
               THEN /\ loc[t].crn.stats = CrnStats(json_file.data)
                    /\ [i \in 1..Len(DataOf(loc[t].crn.data)) |->
                           WithoutRowNum(DataOf(loc[t].crn.data)[i])] = json_file.data
               ELSE loc[t].crn = EmptyCrn)

\* C3 read with a negative length as a request for no rows: the page still
\* holds rows when the length is negative (filtered[0:-1] is all but the last).
C3_NegativeLengthReturnsRows ==
    \A t \in Threads : IsQuery(t) /\ resp[t].status = "ok" =>
        Len(resp[t].data) <= Max2(req[t].length, 0)


--------------------------------------------------------------------------
(* Concurrent queries over the same tables: requests that differ in start *)
(* and sort direction, on every request thread.                           *)

NumberRequests ==
    {Request("api_duplicates", s, 100, <<>>, 4, "desc") : s \in {0, 1}}
    \cup {Request("api_crn_ratio", s, 50, <<>>, 4, d) :
              s \in {0, 1}, d \in {"asc", "desc"}}

InitNumber ==
    /\ csv_file = CsvPair
    /\ json_file = JsonOf(<<CrnTied, CrnOther>>)
    /\ InitProcess

NextNumber ==
    \E t \in Threads :
        \/ StartRequest(t, NumberRequests)
        \/ LoadDuplicates(t)
        \/ LoadCrnRatios(t)
        \/ ApiDuplicatesBody(t)
        \/ ApiCrnRatioBody(t)
        \/ ApiCrnRatioRespond(t)
        \/ Finish(t)

SpecNumber == InitNumber /\ [][NextNumber]_vars

\* C11: in every response of /api/duplicates and /api/crn-ratio the row at
\* 0-based position i of the page carries _row_num = start + i + 1 for the
\* request's own start, whatever other requests run at the same time.
C11_RowNumbersAreTheRequestsOwn ==
    \A t \in Threads : IsQuery(t) /\ resp[t].status = "ok" =>
        \A j \in 1..Len(resp[t].data) :
            resp[t].data[j]["_row_num"] = Num(req[t].start + j)

\* the part of C11 that holds: the rows of /api/duplicates are numbered from
\* the request's own start
DuplicateRowNumbersAreTheRequestsOwn ==
    \A t \in Threads :
        IsQuery(t) /\ req[t].kind = "api_duplicates" /\ resp[t].status = "ok" =>
            \A j \in 1..Len(resp[t].data) :
                resp[t].data[j]["_row_num"] = Num(req[t].start + j)


--------------------------------------------------------------------------
(* The order of the grouped rows *)

\* C12: the row sequence of load_duplicates lists the qualifying groups in
\* ascending key order (_group_id never decreases along it, so the members of
\* a group are contiguous), the members of a group in their order in the
\* file; and with no search text /api/duplicates pages through exactly this
\* sequence: the page is its window from start, row for row.
C12_RowsAreGroupedInKeyOrder ==
    \A t \in Threads :
        /\ (pc[t] = "dup_body" /\ csv_file.state = "ok" =>
               LET out == loc[t].dup.rows
                   rows == csv_file.rows
               IN \A p, q \in 1..Len(out.refs) : p < q =>
                      LET i == out.refs[p]
                          j == out.refs[q]
                      IN /\ out.objs[i]["_group_id"].v <= out.objs[j]["_group_id"].v
                         /\ \/ KeyBefore(TrimmedKey(rows[i]), TrimmedKey(rows[j]))
                            \/ TrimmedKey(rows[i]) = TrimmedKey(rows[j]) /\ i < j)
        /\ (/\ IsQuery(t) /\ req[t].kind = "api_duplicates"
            /\ resp[t].status = "ok" /\ TrimmedText(req[t].search) = <<>>
            /\ req[t].start >= 0 /\ req[t].length >= 0
            => LET out == loc[t].dup.rows
                   n == Len(out.refs)
                   start == req[t].start
                   size == Max2(Min2(start + req[t].length, n) - start, 0)
               IN /\ resp[t].filtered = out.refs
                  /\ Len(resp[t].data) = size
                  /\ \A j \in 1..size :
                         LET row == out.objs[out.refs[start + j]]
                         IN /\ resp[t].data[j]["_group_id"] = row["_group_id"]
                            /\ \A k \in 1..Len(KEY_COLS) :
                                   resp[t].data[j][KEY_COLS[k]] = row[KEY_COLS[k]])

\* a query from start 1 over two groups whose members alternate in the file,
\* the group with the greater key first
C12_Witness ==
    /\ IsQuery(1) /\ req[1].kind = "api_duplicates" /\ resp[1].status = "ok"
    /\ req[1].start = 1 /\ Len(resp[1].data) = 2
    /\ csv_file.state = "ok"
    /\ loc[1].dup.rows.refs = <<2, 4, 1, 3>>
    /\ resp[1].data[1]["_group_id"] # resp[1].data[2]["_group_id"]


--------------------------------------------------------------------------
(* Exports of the ratio table between queries: one request thread *)

ExportRequests ==
    { Request("export_crn_ratio", 0, 0, <<>>, 4, "desc"),
      Request("api_crn_ratio", 0, 1, <<>>, 4, "desc"),
      Request("api_crn_ratio", 1, 50, <<>>, 0, "asc") }

InitExport ==
    /\ csv_file = Missing
    /\ json_file \in {Missing, Unreadable} \cup SortJsonFiles
    /\ InitProcess

NextExport ==
    \E t \in {1} :
        \/ StartRequest(t, ExportRequests)
        \/ LoadCrnRatios(t)
        \/ ApiCrnRatioBody(t)
        \/ ApiCrnRatioRespond(t)
        \/ ExportCrnRatioBody(t)
        \/ Finish(t)

SpecExport == InitExport /\ [][NextExport]_vars

\* an export request of thread t has ended
IsExport(t) == pc[t] = "done" /\ req[t].kind = "export_crn_ratio"

\* C13: whenever the ratio data is loaded and not empty, /export/crn-ratio
\* succeeds and writes a line of exactly the eight fields for every record of
\* the file, whatever /api/crn-ratio requests were served before.
C13_ExportSucceedsAfterAnyQueries ==
    \A t \in Threads :
        IsExport(t) /\ CrnLoaded /\ DataOf(loc[t].crn.data) # <<>> =>
            /\ resp[t].status = "ok"
            /\ resp[t].header = ExportFields
            /\ Len(resp[t].lines) = Len(json_file.data)
            /\ \A i \in 1..Len(json_file.data) :
                   /\ Len(resp[t].lines[i]) = 8
                   /\ \A f \in 1..8 :
                          ExportFields[f] \in DOMAIN json_file.data[i]
                              => resp[t].lines[i][f]
                                     = CsvCell(json_file.data[i][ExportFields[f]])

\* the part of C13 that holds: an export over records no query has numbered
\* succeeds
ExportOfUnnumberedRecordsSucceeds ==
    \A t \in Threads :
        /\ IsExport(t) /\ CrnLoaded /\ DataOf(loc[t].crn.data) # <<>>
        /\ \A i \in 1..Len(DataOf(loc[t].crn.data)) :
               "_row_num" \notin DOMAIN DataOf(loc[t].crn.data)[i]
        => /\ resp[t].status = "ok"
           /\ Len(resp[t].lines) = Len(json_file.data)

==========================================================================
